---- MODULE Spec2Model ----
(***************************************************************************)
(* Model of cell_statistics (src/cell_statistics.py): stack the rasters    *)
(* of a path list, reduce the stack along the layer axis with one of six   *)
(* statistics, and write the result as a new raster next to the metadata   *)
(* of the last raster of the list.                                         *)
(*                                                                         *)
(* Numbers: raster values are integers held in a float64 stack; results    *)
(* are exact rationals <<n, d>> in lowest terms, d > 0, and <<0, 0>> is    *)
(* NaN.  Text (paths, file names) is a sequence of one-character strings,  *)
(* so that splitting and joining are computed.                             *)
(*                                                                         *)
(* Every raster has one band with a numeric no-data value.  The rounding   *)
(* of float64 results to a 32-bit float band is not modelled; the          *)
(* conversion to an 8-bit unsigned band is (ToBand).                       *)
(***************************************************************************)
EXTENDS Integers, Sequences, FiniteSets, TLC

VARIABLES
    ras_lst,    \* argument: the rasters behind the paths, in list order
    stat_type,  \* argument: the statistic tag
    out_dir,    \* argument: the output directory (text)
    kwargs,     \* argument: keyword arguments, a set of [key, val]
    dirs,       \* file system: the directories that exist
    files,      \* file system: the raster files created by this call
    pc,         \* position in cell_statistics
    base_ras,   \* local: path of the reference raster
    proj,       \* local: projection WKT of the reference raster
    trans,      \* local: geotransform of the reference raster
    no_data,    \* local: no-data value of band 1 of the reference raster
    cols,       \* local: RasterXSize of the reference raster
    rows,       \* local: RasterYSize of the reference raster
    stor_arr,   \* local: the stack, stor_arr[layer][row][col]
    out_arr,    \* local: the result, out_arr[row][col], rationals
    out_name,   \* local: the file name of the output raster (text)
    out_ras,    \* local: the output dataset
    calls,      \* the calls made in the save stage, in order
    diag        \* the diagnostic printed before sys.exit()

vars == <<ras_lst, stat_type, out_dir, kwargs, dirs, files, pc, base_ras, proj,
          trans, no_data, cols, rows, stor_arr, out_arr, out_name, out_ras, calls,
          diag>>

\* ------------------------------------------------------------------ bounds
MaxLayers == 3
MaxVal == 2
MaxPathLen == 5

\* ------------------------------------------------------- program constants
\* Largest value of an 8-bit unsigned band (gdal.GDT_Byte).
ByteMax == 255

\* ------------------------------------------------------------- arithmetic
Abs(x) == IF x < 0 THEN -x ELSE x

RECURSIVE GCD(_, _)
GCD(a, b) == IF b = 0 THEN a ELSE GCD(b, a % b)

NaN == <<0, 0>>

\* n / d in lowest terms; a zero divisor gives NaN (float division 0/0).
Norm(n, d) ==
    IF d = 0 THEN NaN
    ELSE LET s == IF d < 0 THEN -1 ELSE 1
             g == GCD(Abs(n), Abs(d))
         IN  <<(s * n) \div g, (s * d) \div g>>

Whole(n) == <<n, 1>>

\* Sum of f[lo] .. f[hi], by halves.
RECURSIVE SumRange(_, _, _)
SumRange(f, lo, hi) ==
    IF lo > hi THEN 0
    ELSE IF lo = hi THEN f[lo]
    ELSE LET mid == (lo + hi) \div 2
         IN  SumRange(f, lo, mid) + SumRange(f, mid + 1, hi)

SumSeq(s) == SumRange(s, 1, Len(s))

Sorted(a) == SortSeq(a, LAMBDA x, y : x < y)

\* ------------------------------------------------------------------- text
os_sep == "/"
os_extsep == "."

\* Index of the first occurrence of ch in s, 0 when there is none.
FirstIndex(s, ch) ==
    IF \E i \in 1..Len(s) : s[i] = ch
    THEN CHOOSE i \in 1..Len(s) : s[i] = ch /\ \A j \in 1..(i - 1) : s[j] # ch
    ELSE 0

LastIndex(s, ch) ==
    IF \E i \in 1..Len(s) : s[i] = ch
    THEN CHOOSE i \in 1..Len(s) : s[i] = ch /\ \A j \in (i + 1)..Len(s) : s[j] # ch
    ELSE 0

\* str.split(sep, 1): at most one split, at the first separator.
SplitOnce(s, sep) ==
    LET i == FirstIndex(s, sep)
    IN  IF i = 0 THEN <<s>> ELSE <<SubSeq(s, 1, i - 1), SubSeq(s, i + 1, Len(s))>>

\* os.path.dirname: everything before the last separator.
DirName(p) == SubSeq(p, 1, LastIndex(p, os_sep) - 1)

\* "{}".format(stat_type) as text.
StatText(st) ==
    CASE st = "mean" -> <<"m", "e", "a", "n">>
      [] st = "min" -> <<"m", "i", "n">>
      [] st = "max" -> <<"m", "a", "x">>
      [] st = "median" -> <<"m", "e", "d", "i", "a", "n">>
      [] st = "rank" -> <<"r", "a", "n", "k">>
      [] st = "trend" -> <<"t", "r", "e", "n", "d">>
      [] OTHER -> <<"b", "o", "g", "u", "s">>

\* ---------------------------------------------------------------- rasters
Stats == {"mean", "min", "max", "median", "rank", "trend"}

InvalidStatMsg == "WARNING: Statistic type provided is not valid."
DirMsg == "WARNING: Provided output directory does not exist."

GDT_Byte == "Byte"
GDT_Float32 == "Float32"

NoRaster ==
    [name |-> <<>>, xsize |-> 0, ysize |-> 0, bands |-> 0, dtype |-> "", driver |-> "",
     trans |-> <<>>, proj |-> "", band |-> <<>>, nodata |-> <<>>, dirty |-> FALSE]

\* Variant: the first path of the list as the reference.
FirstRas(lst) == lst[1]

\* The reference raster: the last path of the list.
BaseRas(lst) == lst[Len(lst)]

\* numpy's assignment stor_arr[i, :, :] = arr broadcasts an axis of length 1.
Fits(arr, r, c) == Len(arr) \in {1, r} /\ Len(arr[1]) \in {1, c}

Broadcast(arr, r, c) ==
    [y \in 1..r |-> [x \in 1..c |->
        arr[IF Len(arr) = 1 THEN 1 ELSE y][IF Len(arr[1]) = 1 THEN 1 ELSE x]]]

\* The values of all layers at one pixel, in layer order.
Column(stack, y, x) == [i \in 1..Len(stack) |-> stack[i][y][x]]

\* np.where(stor_arr == no_data, 1, 0).sum(0) > 0 at one pixel.
HasNoData(col, nd) == SumSeq([i \in 1..Len(col) |-> IF col[i] = nd THEN 1 ELSE 0]) > 0

\* ------------------------------------------------------------ statistics
\* Variant: a mean that leaves the no-data values out.
MeanPixelMasked(col, nd) ==
    LET keep == [i \in 1..Len(col) |-> IF col[i] = nd THEN 0 ELSE 1]
    IN  Norm(SumSeq([i \in 1..Len(col) |-> keep[i] * col[i]]), SumSeq(keep))

MeanPixel(col, nd) == Norm(SumSeq(col), Len(col))

RECURSIVE MinRange(_, _, _)
MinRange(col, lo, hi) ==
    IF lo = hi THEN col[lo]
    ELSE LET mid == (lo + hi) \div 2
             a == MinRange(col, lo, mid)
             b == MinRange(col, mid + 1, hi)
         IN  IF b < a THEN b ELSE a

RECURSIVE MaxRange(_, _, _)
MaxRange(col, lo, hi) ==
    IF lo = hi THEN col[lo]
    ELSE LET mid == (lo + hi) \div 2
             a == MaxRange(col, lo, mid)
             b == MaxRange(col, mid + 1, hi)
         IN  IF b > a THEN b ELSE a

MinPixel(col, nd) == Whole(MinRange(col, 1, Len(col)))

MaxPixel(col, nd) == Whole(MaxRange(col, 1, Len(col)))

\* np.median: the middle of the sorted values, or the mean of the two middle.
MedianPixel(col, nd) ==
    LET s == Sorted(col)
        n == Len(col)
    IN  IF n % 2 = 1 THEN Whole(s[(n + 1) \div 2])
        ELSE Norm(s[n \div 2] + s[n \div 2 + 1], 2)

\* Variant: ties take the largest rank of the tied values.
RankDataMax(a) ==
    LET s == Sorted(a)
    IN  [i \in 1..Len(a) |-> LastIndex(s, a[i])]

\* scipy.stats.rankdata(a, "min"): sort, and give every value the position
\* of its first occurrence in the sorted order.
RankData(a) ==
    LET s == Sorted(a)
    IN  [i \in 1..Len(a) |-> FirstIndex(s, a[i])]

RankPixel(col, nd) ==
    IF HasNoData(col, nd) THEN Whole(0) ELSE Whole(RankData(col)[Len(col)])

\* scipy.stats.linregress(range(len(a)), a)[0]: covariance of x and a over
\* the variance of x, with x = 0 .. len(a) - 1.
Slope(a) ==
    LET n == Len(a)
        x == [i \in 1..n |-> i - 1]
        sx == SumSeq(x)
        sy == SumSeq(a)
        sxx == SumSeq([i \in 1..n |-> x[i] * x[i]])
        sxy == SumSeq([i \in 1..n |-> x[i] * a[i]])
    IN  Norm(n * sxy - sx * sy, n * sxx - sx * sx)

\* Variant: the slope without the no-data mask.
TrendPixelUnmasked(col, nd) == Slope(col)

TrendPixel(col, nd) ==
    IF HasNoData(col, nd) THEN Whole(nd) ELSE Slope(col)

\* ----------------------------------------------------------------- output
\* out_ras_ext = base_ras.split(os.extsep, 1)[-1]
OutExt(path) == LET p == SplitOnce(path, os_extsep) IN p[Len(p)]

OutFlnm(kw, st) ==
    IF \E kv \in kw : kv.key = "flnm"
    THEN (CHOOSE kv \in kw : kv.key = "flnm").val
    ELSE <<"c", "e", "l", "l", "_", "s", "t", "a", "t", "_">> \o StatText(st)

OutName(dir, kw, st, path) ==
    dir \o <<os_sep>> \o OutFlnm(kw, st) \o <<os_extsep>> \o OutExt(path)

OutDepth(st) == IF st = "rank" THEN GDT_Byte ELSE GDT_Float32

\* Variant: the reference no-data value for every statistic.
OutNoDataSame(st, nd) == nd

OutNoData(st, nd) == IF st = "rank" THEN 0 ELSE nd

\* Band.WriteArray: the array is converted to the band's pixel type; a value
\* outside an 8-bit unsigned band's range is clamped to it.
ToBand(dtype, v) ==
    IF dtype = GDT_Byte /\ v[2] = 1
    THEN Whole(IF v[1] > ByteMax THEN ByteMax ELSE IF v[1] < 0 THEN 0 ELSE v[1])
    ELSE v

\* ----------------------------------------------------------------- inputs
\* The arguments the model calls cell_statistics with.
Raster(path, prj, trn, nd, data) ==
    [path |-> path, proj |-> prj, trans |-> trn, nodata |-> nd, driver |-> "GTiff",
     data |-> data]

TifPath == <<"a", ".", "t">>
GoodDir == <<"o">>
MissingDir == <<"x">>
ProjA == "WKT_A"
ProjB == "WKT_B"
TransA == <<0, 1, 0, 0, 0, -1>>
TransB == <<5, 2, 0, 5, 0, -2>>
NoKw == {}
FlnmKw == {[key |-> "flnm", val |-> <<"f">>]}
Tags == Stats \cup {"bogus"}

Args(lst, st, dir, kw) == [ras_lst |-> lst, stat_type |-> st, out_dir |-> dir, kwargs |-> kw]

\* Stacks of one-pixel rasters with every combination of values.
PixelStacks ==
    UNION {
        {[i \in 1..n |-> Raster(TifPath, ProjA, TransA, nd, <<<<col[i]>>>>)] :
            col \in [1..n -> 0..MaxVal], nd \in {0, MaxVal + 1}} :
        n \in 1..MaxLayers}

\* Three 2 x 2 rasters without no-data values.
GridStack ==
    <<Raster(TifPath, ProjA, TransA, 0, <<<<1, 2>>, <<3, 4>>>>),
      Raster(TifPath, ProjA, TransA, 0, <<<<2, 2>>, <<3, 5>>>>),
      Raster(TifPath, ProjA, TransA, 0, <<<<3, 2>>, <<3, 6>>>>)>>

StatInputs ==
    {Args(lst, st, GoodDir, NoKw) : lst \in PixelStacks \cup {GridStack}, st \in Tags}

\* Rasters that differ in projection, geotransform, no-data value and width.
MixedRasters ==
    {Raster(TifPath, ProjA, TransA, 0, <<<<1>>>>),
     Raster(TifPath, ProjA, TransA, 0, <<<<2, 0>>>>),
     Raster(TifPath, ProjB, TransB, MaxVal + 1, <<<<1>>>>),
     Raster(TifPath, ProjB, TransB, MaxVal + 1, <<<<2, 0>>>>)}

MixedStacks == UNION {[1..n -> MixedRasters] : n \in 0..MaxLayers}

SaveInputs ==
    {Args(lst, st, dir, kw) :
        lst \in MixedStacks, st \in Tags, dir \in {GoodDir, MissingDir},
        kw \in {NoKw, FlnmKw}}

\* Reference paths: every text over a letter, the extension separator and
\* the path separator that can name a file.
PathChars == {"a", os_extsep, os_sep}

Paths ==
    {p \in UNION {[1..n -> PathChars] : n \in 1..MaxPathLen} : p[Len(p)] # os_sep}

PathInputs ==
    {Args(<<Raster(p, ProjA, TransA, 0, <<<<1>>>>)>>, st, GoodDir, kw) :
        p \in Paths, st \in {"mean", "rank"}, kw \in {NoKw, FlnmKw}}

\* Stacks as deep as an 8-bit band can count, and one layer deeper.
TallColumn(shape, n) ==
    [i \in 1..n |-> IF shape = "rising" THEN i ELSE IF shape = "falling" THEN n + 1 - i ELSE 1]

TallInputs ==
    {Args([i \in 1..n |-> Raster(TifPath, ProjA, TransA, nd, <<<<TallColumn(shape, n)[i]>>>>)],
          "rank", GoodDir, NoKw) :
        n \in {ByteMax, ByteMax + 1}, shape \in {"rising", "falling", "flat"}, nd \in {0, 1}}

Inputs == StatInputs \cup SaveInputs \cup PathInputs \cup TallInputs

\* ------------------------------------------------------------ the program
Init ==
    /\ \E a \in Inputs :
        /\ ras_lst = a.ras_lst
        /\ stat_type = a.stat_type
        /\ out_dir = a.out_dir
        /\ kwargs = a.kwargs
    /\ dirs = {GoodDir}
    /\ files = {}
    /\ pc = "start"
    /\ base_ras = <<>>
    /\ proj = ""
    /\ trans = <<>>
    /\ no_data = 0
    /\ cols = 0
    /\ rows = 0
    /\ stor_arr = <<>>
    /\ out_arr = <<>>
    /\ out_name = <<>>
    /\ out_ras = NoRaster
    /\ calls = <<>>
    /\ diag = ""

args == <<ras_lst, stat_type, out_dir, kwargs, dirs>>
meta == <<base_ras, proj, trans, no_data, cols, rows>>
arrs == <<stor_arr, out_arr>>

\* The layers whose array cannot be assigned into a rows x cols slot.
Misfits(lst, r, c) == {i \in 1..Len(lst) : ~Fits(lst[i].data, r, c)}

\* Variant: no check of the directory.
IsDirUnchecked(dir, ds) == TRUE

\* path.isdir(out_dir)
IsDir(dir, ds) == dir \in ds

\* ras_lst[-1] of an empty list: IndexError, not caught.
EmptyList ==
    /\ pc = "start"
    /\ Len(ras_lst) = 0
    /\ pc' = "crashed"
    /\ UNCHANGED <<args, files, meta, arrs, out_name, out_ras, calls, diag>>

\* Open the last raster of the list and read its metadata.
OpenBase ==
    /\ pc = "start"
    /\ Len(ras_lst) > 0
    /\ LET gras == BaseRas(ras_lst)
       IN  /\ base_ras' = gras.path
           /\ proj' = gras.proj
           /\ trans' = gras.trans
           /\ no_data' = gras.nodata
           /\ cols' = Len(gras.data[1])
           /\ rows' = Len(gras.data)
    /\ pc' = "load"
    /\ UNCHANGED <<args, files, arrs, out_name, out_ras, calls, diag>>

\* Insert every raster into the stack.
LoadStack ==
    /\ pc = "load"
    /\ Misfits(ras_lst, rows, cols) = {}
    /\ stor_arr' = [i \in 1..Len(ras_lst) |-> Broadcast(ras_lst[i].data, rows, cols)]
    /\ pc' = "calc"
    /\ UNCHANGED <<args, files, meta, out_arr, out_name, out_ras, calls, diag>>

\* A raster whose shape cannot be broadcast: ValueError outside the try.
LoadStackFail ==
    /\ pc = "load"
    /\ Misfits(ras_lst, rows, cols) # {}
    /\ pc' = "crashed"
    /\ UNCHANGED <<args, files, meta, arrs, out_name, out_ras, calls, diag>>

\* The reduction of one pixel column under each statistic.
StatPixel(st, col, nd) ==
    CASE st = "mean" -> MeanPixel(col, nd)
      [] st = "min" -> MinPixel(col, nd)
      [] st = "max" -> MaxPixel(col, nd)
      [] st = "median" -> MedianPixel(col, nd)
      [] st = "rank" -> RankPixel(col, nd)
      [] st = "trend" -> TrendPixel(col, nd)

\* The reduction along axis 0, pixel by pixel.
Reduce(st) ==
    [y \in 1..rows |-> [x \in 1..cols |-> StatPixel(st, Column(stor_arr, y, x), no_data)]]

Calculated(arr) ==
    /\ out_arr' = arr
    /\ pc' = "save"
    /\ UNCHANGED <<args, files, meta, stor_arr, out_name, out_ras, calls, diag>>

CalcMean == pc = "calc" /\ stat_type = "mean" /\ Calculated(Reduce("mean"))

CalcMin == pc = "calc" /\ stat_type = "min" /\ Calculated(Reduce("min"))

CalcMax == pc = "calc" /\ stat_type = "max" /\ Calculated(Reduce("max"))

CalcMedian == pc = "calc" /\ stat_type = "median" /\ Calculated(Reduce("median"))

CalcRank == pc = "calc" /\ stat_type = "rank" /\ Calculated(Reduce("rank"))

\* With one layer the regression has a single point and the slope is 0/0,
\* NaN, at every pixel that holds no sentinel.
CalcTrend == pc = "calc" /\ stat_type = "trend" /\ Calculated(Reduce("trend"))

\* Variant: the diagnostic is printed and the call goes on.
CalcInvalidNoExit ==
    /\ pc = "calc"
    /\ stat_type \notin Stats
    /\ diag' = InvalidStatMsg
    /\ pc' = "save"
    /\ UNCHANGED <<args, files, meta, arrs, out_name, out_ras, calls>>

\* Any other tag: ValueError, printed, sys.exit().
CalcInvalid ==
    /\ pc = "calc"
    /\ stat_type \notin Stats
    /\ diag' = InvalidStatMsg
    /\ pc' = "exited"
    /\ UNCHANGED <<args, files, meta, arrs, out_name, out_ras, calls>>

\* The output directory does not exist: NotADirectoryError, printed, sys.exit().
CheckDirFail ==
    /\ pc = "save"
    /\ ~IsDir(out_dir, dirs)
    /\ calls' = Append(calls, "isdir")
    /\ diag' = DirMsg
    /\ pc' = "exited"
    /\ UNCHANGED <<args, files, meta, arrs, out_name, out_ras>>

\* The directory exists: build the file name of the output raster.
CheckDirOk ==
    /\ pc = "save"
    /\ IsDir(out_dir, dirs)
    /\ calls' = Append(calls, "isdir")
    /\ out_name' = OutName(out_dir, kwargs, stat_type, base_ras)
    /\ pc' = "create"
    /\ UNCHANGED <<args, files, meta, arrs, out_ras, diag>>

\* out_driver.Create(out_ras, cols, rows, 1, out_dep)
Create ==
    /\ pc = "create"
    /\ DirName(out_name) \in dirs
    /\ out_ras' = [NoRaster EXCEPT !.name = out_name, !.xsize = cols, !.ysize = rows,
                                   !.bands = 1, !.dtype = OutDepth(stat_type),
                                   !.driver = BaseRas(ras_lst).driver]
    /\ files' = files \cup {out_name}
    /\ calls' = Append(calls, "Create")
    /\ pc' = "geo"
    /\ UNCHANGED <<args, meta, arrs, out_name, diag>>

\* The file name lies in no existing directory: Create gives no dataset and
\* the first call on it fails, not caught.
CreateFail ==
    /\ pc = "create"
    /\ DirName(out_name) \notin dirs
    /\ calls' = Append(calls, "Create")
    /\ pc' = "crashed"
    /\ UNCHANGED <<args, files, meta, arrs, out_name, out_ras, diag>>

Saved(op, ras, next) ==
    /\ out_ras' = ras
    /\ calls' = Append(calls, op)
    /\ pc' = next
    /\ UNCHANGED <<args, files, meta, arrs, out_name, diag>>

SetGeoTransform ==
    /\ pc = "geo"
    /\ Saved("SetGeoTransform", [out_ras EXCEPT !.trans = trans, !.dirty = TRUE], "proj")

SetProjection ==
    /\ pc = "proj"
    /\ Saved("SetProjection", [out_ras EXCEPT !.proj = proj, !.dirty = TRUE], "write")

WriteArray ==
    /\ pc = "write"
    /\ Saved("WriteArray",
             [out_ras EXCEPT !.band = [y \in 1..rows |-> [x \in 1..cols |->
                                          ToBand(out_ras.dtype, out_arr[y][x])]],
                             !.dirty = TRUE],
             "flush")

FlushCache ==
    /\ pc = "flush"
    /\ Saved("FlushCache", [out_ras EXCEPT !.dirty = FALSE], "nodata")

SetNoDataValue ==
    /\ pc = "nodata"
    /\ Saved("SetNoDataValue",
             [out_ras EXCEPT !.nodata = <<OutNoData(stat_type, no_data)>>, !.dirty = TRUE],
             "done")

Next ==
    \/ EmptyList
    \/ OpenBase
    \/ LoadStack
    \/ LoadStackFail
    \/ CalcMean
    \/ CalcMin
    \/ CalcMax
    \/ CalcMedian
    \/ CalcRank
    \/ CalcTrend
    \/ CalcInvalid
    \/ CheckDirFail
    \/ CheckDirOk
    \/ Create
    \/ CreateFail
    \/ SetGeoTransform
    \/ SetProjection
    \/ WriteArray
    \/ FlushCache
    \/ SetNoDataValue

Spec == Init /\ [][Next]_vars

\* ------------------------------------------------------------- properties
\* What the properties speak of, read off the arguments of the call.
Reference == ras_lst[Len(ras_lst)]

Sentinel == Reference.nodata

Pixels == {<<y, x>> : y \in 1..Len(Reference.data), x \in 1..Len(Reference.data[1])}

\* The value of layer i at pixel px (a one-wide axis of a layer spans the grid).
LayerValue(i, px) ==
    LET d == ras_lst[i].data
    IN  d[IF Len(d) = 1 THEN 1 ELSE px[1]][IF Len(d[1]) = 1 THEN 1 ELSE px[2]]

Layers == 1..Len(ras_lst)

Masked(px) == \E i \in Layers : LayerValue(i, px) = Sentinel

Smaller(px) == {i \in Layers : LayerValue(i, px) < LayerValue(Len(ras_lst), px)}

Total(px) == SumSeq([i \in Layers |-> LayerValue(i, px)])

Result(px) == out_arr[px[1]][px[2]]

Stored(px) == out_ras.band[px[1]][px[2]]

HasResult == out_arr # <<>>

\* b is the least-squares slope of the points (i - 1, value of layer i): the
\* residuals of the line through the mean point with slope b are orthogonal
\* to the layer index.  With b = p / q the residual of layer i, times n * q,
\* is n*q*v[i] - (q * sum v - p * sum x) - n*p*x[i].
IsLeastSquaresSlope(b, px) ==
    LET n == Len(ras_lst)
        sv == Total(px)
        sx == SumSeq([i \in Layers |-> i - 1])
        res == [i \in Layers |->
                   n * b[2] * LayerValue(i, px) - (b[2] * sv - b[1] * sx)
                   - n * b[1] * (i - 1)]
    IN  /\ b[2] > 0
        /\ SumSeq([i \in Layers |-> (i - 1) * res[i]]) = 0

\* The value at 0-based position k of the layer values in ascending order.
OrderStatistic(px, k) ==
    CHOOSE v \in {LayerValue(i, px) : i \in Layers} :
        /\ Cardinality({i \in Layers : LayerValue(i, px) < v}) <= k
        /\ Cardinality({i \in Layers : LayerValue(i, px) <= v}) > k

\* C1: for "rank" every pixel with a sentinel in some layer is 0, and every
\* other pixel is 1 + the number of layers strictly smaller than the last.
C1_Rank ==
    (stat_type = "rank" /\ HasResult) =>
        \A px \in Pixels :
            Result(px) = IF Masked(px) THEN <<0, 1>>
                         ELSE <<1 + Cardinality(Smaller(px)), 1>>

\* A rank stack with a sentinel-free pixel whose last value is tied and not
\* the smallest, and a pixel that holds the sentinel.
C1_Witness ==
    /\ stat_type = "rank"
    /\ pc = "save"
    /\ \E px \in Pixels :
        /\ ~Masked(px)
        /\ Result(px)[1] >= 2
        /\ \E i \in Layers \ {Len(ras_lst)} :
               LayerValue(i, px) = LayerValue(Len(ras_lst), px)
    /\ \E px \in Pixels : Masked(px) /\ Result(px) = <<0, 1>>

\* C2: for "trend" over two or more layers every pixel with a sentinel in
\* some layer is the sentinel, and every other pixel is the least-squares
\* slope of (layer index, value).
C2_Trend ==
    (stat_type = "trend" /\ HasResult /\ Len(ras_lst) >= 2) =>
        \A px \in Pixels :
            IF Masked(px) THEN Result(px) = <<Sentinel, 1>>
            ELSE IsLeastSquaresSlope(Result(px), px)

\* A trend stack with a sentinel-free pixel of fractional slope and a pixel
\* that holds the sentinel.
C2_Witness ==
    /\ stat_type = "trend"
    /\ pc = "save"
    /\ \E px \in Pixels : ~Masked(px) /\ Result(px)[2] > 1
    /\ \E px \in Pixels : Masked(px) /\ Result(px) = <<Sentinel, 1>>

\* C3: mean, min, max and median are the plain reductions over all layer
\* values, sentinel or not; the 2 x 2 example gives [[2, 2], [3, 5]].
C3_PlainReductions ==
    /\ (stat_type = "mean" /\ HasResult) =>
           \A px \in Pixels :
               Result(px)[2] > 0 /\ Result(px)[1] * Len(ras_lst) = Result(px)[2] * Total(px)
    /\ (stat_type = "min" /\ HasResult) =>
           \A px \in Pixels :
               /\ Result(px)[2] = 1
               /\ \E i \in Layers : LayerValue(i, px) = Result(px)[1]
               /\ \A i \in Layers : LayerValue(i, px) >= Result(px)[1]
    /\ (stat_type = "max" /\ HasResult) =>
           \A px \in Pixels :
               /\ Result(px)[2] = 1
               /\ \E i \in Layers : LayerValue(i, px) = Result(px)[1]
               /\ \A i \in Layers : LayerValue(i, px) <= Result(px)[1]
    /\ (stat_type = "median" /\ HasResult) =>
           \A px \in Pixels :
               /\ Result(px)[2] > 0
               /\ 2 * Result(px)[1] =
                      Result(px)[2] * (OrderStatistic(px, (Len(ras_lst) - 1) \div 2)
                                       + OrderStatistic(px, Len(ras_lst) \div 2))
    /\ (stat_type = "mean" /\ HasResult /\ ras_lst = GridStack) =>
           out_arr = <<<<<<2, 1>>, <<2, 1>>>>, <<<<3, 1>>, <<5, 1>>>>>>

\* A mean over a pixel that holds the sentinel, which is averaged in.
C3_Witness ==
    /\ stat_type = "mean"
    /\ pc = "save"
    /\ Sentinel = 0
    /\ [i \in Layers |-> LayerValue(i, <<1, 1>>)] = <<0, 2, 2>>
    /\ Result(<<1, 1>>) = <<4, 3>>

\* C4: with an unrecognised tag the statistic stage ends the call with the
\* invalid-statistic diagnostic; the save stage is never entered: no
\* directory check, no dataset, no file.
C4_InvalidStatistic ==
    /\ [](stat_type \notin Stats =>
            /\ pc \in {"start", "load", "calc", "exited", "crashed"}
            /\ calls = <<>>
            /\ files = {}
            /\ out_name = <<>>
            /\ out_ras = NoRaster
            /\ (pc = "exited" => diag = InvalidStatMsg))
    /\ [][(stat_type \notin Stats /\ pc = "calc") =>
              (pc' = "exited" /\ diag' = InvalidStatMsg)]_vars

\* The call has ended on an unrecognised tag, with and without the directory.
C4_Witness ==
    /\ stat_type \notin Stats
    /\ pc = "exited"
    /\ diag = InvalidStatMsg
    /\ out_dir \notin dirs
    /\ stor_arr # <<>>

\* C5: with a valid tag and a missing output directory the call ends with the
\* directory diagnostic after the statistic is computed and before Create:
\* no dataset, no call on one, no file.
C5_MissingDirectory ==
    /\ []((stat_type \in Stats /\ out_dir \notin dirs) =>
            /\ pc \in {"start", "load", "calc", "save", "exited", "crashed"}
            /\ \A k \in 1..Len(calls) : calls[k] = "isdir"
            /\ files = {}
            /\ out_ras = NoRaster
            /\ pc = "exited" => (diag = DirMsg /\ HasResult /\ calls = <<"isdir">>))
    /\ [][(stat_type \in Stats /\ out_dir \notin dirs /\ pc = "save") =>
              (pc' = "exited" /\ diag' = DirMsg)]_vars

\* The call has ended on the missing directory with the statistic computed.
C5_Witness ==
    /\ stat_type \in Stats
    /\ out_dir \notin dirs
    /\ pc = "exited"
    /\ diag = DirMsg
    /\ out_arr # <<>>
    /\ files = {}

\* C6: a finished call leaves an 8-bit unsigned band with no-data value 0
\* for "rank", and a 32-bit float band with the reference raster's no-data
\* value for every other statistic.
C6_TypeAndNoData ==
    pc = "done" =>
        /\ out_ras.dtype = IF stat_type = "rank" THEN "Byte" ELSE "Float32"
        /\ out_ras.nodata = <<IF stat_type = "rank" THEN 0 ELSE Sentinel>>

\* A finished rank call on a reference raster whose no-data value is not 0.
C6_Witness ==
    /\ pc = "done"
    /\ stat_type = "rank"
    /\ Sentinel # 0
    /\ out_ras.nodata = <<0>>
    /\ out_ras.dtype = "Byte"

\* C7: a finished call leaves the projection, geotransform and size of the
\* last raster of the list on the output, whatever the other rasters have.
C7_ReferenceMetadata ==
    pc = "done" =>
        /\ out_ras.proj = Reference.proj
        /\ out_ras.trans = Reference.trans
        /\ out_ras.xsize = Len(Reference.data[1])
        /\ out_ras.ysize = Len(Reference.data)

\* A finished call whose first raster differs from the last in projection,
\* geotransform and width.
C7_Witness ==
    /\ pc = "done"
    /\ Len(ras_lst) >= 2
    /\ ras_lst[1].proj # Reference.proj
    /\ ras_lst[1].trans # Reference.trans
    /\ Len(ras_lst[1].data[1]) # Len(Reference.data[1])
    /\ out_ras.proj = Reference.proj

\* os.path.splitext on the file name of a path: the text after the last
\* extension separator of the last component, leading separators apart.
BaseName(p) == SubSeq(p, LastIndex(p, os_sep) + 1, Len(p))

HasExtension(p) ==
    LET b == BaseName(p)
        k == LastIndex(b, os_extsep)
    IN  k > 0 /\ k < Len(b) /\ \E j \in 1..(k - 1) : b[j] # os_extsep

FileExtension(p) ==
    LET b == BaseName(p) IN SubSeq(b, LastIndex(b, os_extsep) + 1, Len(b))

\* C8: the output file is <out_dir>/<base>.<ext>, base being flnm or
\* cell_stat_<statistic> and ext the extension of the reference path, for
\* every reference path that has an extension.
C8_OutputName ==
    (out_name # <<>> /\ HasExtension(Reference.path)) =>
        out_name = out_dir \o <<"/">>
                   \o (IF \E kv \in kwargs : kv.key = "flnm"
                       THEN (CHOOSE kv \in kwargs : kv.key = "flnm").val
                       ELSE <<"c", "e", "l", "l", "_", "s", "t", "a", "t", "_">>
                            \o StatText(stat_type))
                   \o <<".">> \o FileExtension(Reference.path)

\* C9: a finished call has created the dataset, set geotransform and
\* projection, written the band, set the no-data value and flushed, in
\* this order, and nothing on the dataset has changed since the flush.
C9_WriteOrder ==
    pc = "done" =>
        /\ calls = <<"isdir", "Create", "SetGeoTransform", "SetProjection", "WriteArray",
                     "SetNoDataValue", "FlushCache">>
        /\ ~out_ras.dirty

\* C10: the band of a finished "rank" call is 0 exactly at the pixels that
\* hold the sentinel in some layer, and holds the rank itself elsewhere.
C10_RankBand ==
    (pc = "done" /\ stat_type = "rank") =>
        \A px \in Pixels :
            /\ Stored(px) = <<0, 1>> <=> Masked(px)
            /\ ~Masked(px) => Stored(px) = <<1 + Cardinality(Smaller(px)), 1>>

====
